---------------------------- MODULE Spec2Model ----------------------------
(***************************************************************************)
(* Matcher combinator algebra of include/internal/catch_matchers.h:        *)
(* MatcherUntypedBase (description cache), MatchAllOf, MatchAnyOf,         *)
(* MatchNotOf, the factories And / Or / Not and the operators && || !.     *)
(*                                                                         *)
(* A matcher object is a record                                            *)
(*   kind   "Leaf" (a user matcher), "AllOf", "AnyOf", "NotOf",            *)
(*          "Other" (an object of a class that is no matcher),             *)
(*          "IllFormed" (the expression does not compile; desc says why)   *)
(*   cls    the C++ class of a Leaf / Other object                         *)
(*   accept the values a Leaf's match() accepts                            *)
(*   desc   the text a Leaf's describe() returns                           *)
(*   ms     m_matchers (AllOf, AnyOf) or <<m_matcher>> (NotOf)             *)
(*   m_cachedToString   the description cache                              *)
(* Tuple indices of the source are 0-based: std::get<I> is ms[I + 1].      *)
(***************************************************************************)
EXTENDS Naturals, Sequences, FiniteSets

\* Matched values are 0 .. MaxVal.
MaxVal == 1
\* Largest number of nodes of a matcher tree the machine builds.
MaxNodes == 4
\* Largest number of consecutive toString() calls on one object.
MaxCalls == 2
\* Largest number of nodes of an object that becomes the second operand.
MaxOperand == 2
\* Number of threads that use a shared matcher tree.
NThreads == 2

Values == 0 .. MaxVal

Min(S) == CHOOSE i \in S : \A j \in S : i <= j

-----------------------------------------------------------------------------
(* Objects *)

Obj(kind, cls, accept, desc, ms) ==
    [kind |-> kind, cls |-> cls, accept |-> accept, desc |-> desc,
     ms |-> ms, m_cachedToString |-> ""]

\* Primitive matchers of the test scenarios: two objects of one class, one
\* of another class, and one whose description is the empty text.
Eq1 == Obj("Leaf", "Eq", {1}, "equals 1", <<>>)
Eq2 == Obj("Leaf", "Eq", {2}, "equals 2", <<>>)
Lt1 == Obj("Leaf", "Lt", {v \in Values : v < 1}, "is less than 1", <<>>)
Blank == Obj("Leaf", "Blank", Values, "", <<>>)
UserMatchers == {Eq1, Eq2, Lt1, Blank}
\* The user matchers the call tests combine.
Probes == {Eq1, Lt1, Blank}

\* An object of a class that does not derive from MatcherUntypedBase.
Widget == Obj("Other", "Widget", {}, "", <<>>)

MatchAllOf(ms) == Obj("AllOf", "", {}, "", ms)
MatchAnyOf(ms) == Obj("AnyOf", "", {}, "", ms)
MatchNotOf(m) == Obj("NotOf", "", {}, "", <<m>>)
IllFormed(why) == Obj("IllFormed", "", {}, why, <<>>)

RECURSIVE Size(_)
RECURSIVE SumSizes(_, _)
SumSizes(ms, i) == IF i > Len(ms) THEN 0 ELSE Size(ms[i]) + SumSizes(ms, i + 1)
Size(m) == 1 + SumSizes(m.ms, 1)

\* Every node of the tree is a matcher object (match / toString compile).
RECURSIVE AllMatchers(_)
AllMatchers(m) ==
    /\ m.kind \in {"Leaf", "AllOf", "AnyOf", "NotOf"}
    /\ \A i \in 1 .. Len(m.ms) : AllMatchers(m.ms[i])

-----------------------------------------------------------------------------
(* match                                                                   *)
(* Match(m, a, path) is the call m.match(a) on the object at `path` of the *)
(* tree under test.  It yields the verdict and, in call order, the paths   *)
(* of the objects whose match() was invoked (the probe counters of the     *)
(* tests).                                                                 *)

RECURSIVE Match(_, _, _)
RECURSIVE AllOfIterMatch(_, _, _, _)
RECURSIVE AnyOfIterMatch(_, _, _, _)

\* Mutant of AllOfIterMatch: the conjunction without the early return.
AllOfIterMatch_NoEarlyReturn(m, I, a, path) ==
    IF I = Len(m.ms)
    THEN [res |-> TRUE, calls |-> <<>>]
    ELSE LET r == Match(m.ms[I + 1], a, path \o <<I>>)
             rest == AllOfIterMatch(m, I + 1, a, path)
         IN  [res |-> r.res /\ rest.res, calls |-> r.calls \o rest.calls]

\* MatchAllOf::Iter<I>::match, and Iter<N>::match when I = N.
AllOfIterMatch(m, I, a, path) ==
    IF I = Len(m.ms)
    THEN [res |-> TRUE, calls |-> <<>>]
    ELSE LET r == Match(m.ms[I + 1], a, path \o <<I>>)
         IN  IF ~r.res
             THEN [res |-> FALSE, calls |-> r.calls]
             ELSE LET rest == AllOfIterMatch(m, I + 1, a, path)
                  IN  [res |-> rest.res, calls |-> r.calls \o rest.calls]

\* Mutant of AnyOfIterMatch: the disjunction without the early return.
AnyOfIterMatch_NoEarlyReturn(m, I, a, path) ==
    IF I = Len(m.ms)
    THEN [res |-> FALSE, calls |-> <<>>]
    ELSE LET r == Match(m.ms[I + 1], a, path \o <<I>>)
             rest == AnyOfIterMatch(m, I + 1, a, path)
         IN  [res |-> r.res \/ rest.res, calls |-> r.calls \o rest.calls]

\* MatchAnyOf::Iter<I>::match, and Iter<N>::match when I = N.
AnyOfIterMatch(m, I, a, path) ==
    IF I = Len(m.ms)
    THEN [res |-> FALSE, calls |-> <<>>]
    ELSE LET r == Match(m.ms[I + 1], a, path \o <<I>>)
         IN  IF r.res
             THEN [res |-> TRUE, calls |-> r.calls]
             ELSE LET rest == AnyOfIterMatch(m, I + 1, a, path)
                  IN  [res |-> rest.res, calls |-> r.calls \o rest.calls]

\* MatchNotOf::match.
NotOfMatch(m, a, path) ==
    LET r == Match(m.ms[1], a, path \o <<0>>)
    IN  [res |-> ~r.res, calls |-> r.calls]

\* MatcherMethod<T>::match of a user matcher.
LeafMatch(m, a) == [res |-> a \in m.accept, calls |-> <<>>]

\* The virtual / template dispatch of m.match(a).
Match(m, a, path) ==
    LET r == CASE m.kind = "AllOf" -> AllOfIterMatch(m, 0, a, path)
               [] m.kind = "AnyOf" -> AnyOfIterMatch(m, 0, a, path)
               [] m.kind = "NotOf" -> NotOfMatch(m, a, path)
               [] OTHER -> LeafMatch(m, a)
    IN  [res |-> r.res, calls |-> <<path>> \o r.calls]

-----------------------------------------------------------------------------
(* describe / toString                                                     *)
(* Both yield the text, the object as the call leaves it (the caches of    *)
(* the sub-matchers are mutable through const), in call order the paths of *)
(* the objects whose describe() was invoked (calls), and in order the      *)
(* paths of the objects whose m_cachedToString was assigned (writes).      *)

RECURSIVE Describe(_, _)
RECURSIVE ToString(_, _)
RECURSIVE AllOfIterDescribe(_, _, _, _)
RECURSIVE AnyOfIterDescribe(_, _, _, _)

\* MatcherUntypedBase::toString.  Its body is not part of the header; the
\* header gives its state: the one data member m_cachedToString, a string
\* that starts empty.  The text is computed by describe() when nothing is
\* cached and kept in m_cachedToString; an empty m_cachedToString is the
\* only way this state can say "nothing cached".
ToString(m, path) ==
    IF m.m_cachedToString = ""
    THEN LET d == Describe(m, path)
         IN  [text |-> d.text,
              obj |-> [d.obj EXCEPT !.m_cachedToString = d.text],
              calls |-> d.calls,
              writes |-> d.writes \o <<path>>]
    ELSE [text |-> m.m_cachedToString, obj |-> m, calls |-> <<>>, writes |-> <<>>]

\* Mutant of AllOfConnective: the connective before every sub-description.
AllOfConnective_Always(I) == " and "

\* MatchAllOf::Iter<I>::describe: if (I > 0) description += " and ".
AllOfConnective(I) == IF I > 0 THEN " and " ELSE ""

\* MatchAnyOf::Iter<I>::describe: if (I > 0) description += " or ".
AnyOfConnective(I) == IF I > 0 THEN " or " ELSE ""

\* MatchAllOf::Iter<I>::describe, and Iter<N>::describe when I = N.
AllOfIterDescribe(m, I, description, path) ==
    IF I = Len(m.ms)
    THEN [text |-> description, obj |-> m, calls |-> <<>>, writes |-> <<>>]
    ELSE LET s == ToString(m.ms[I + 1], path \o <<I>>)
             rest == AllOfIterDescribe([m EXCEPT !.ms[I + 1] = s.obj], I + 1,
                                       description \o AllOfConnective(I) \o s.text,
                                       path)
         IN  [text |-> rest.text, obj |-> rest.obj, calls |-> s.calls \o rest.calls,
              writes |-> s.writes \o rest.writes]

\* MatchAnyOf::Iter<I>::describe, and Iter<N>::describe when I = N.
AnyOfIterDescribe(m, I, description, path) ==
    IF I = Len(m.ms)
    THEN [text |-> description, obj |-> m, calls |-> <<>>, writes |-> <<>>]
    ELSE LET s == ToString(m.ms[I + 1], path \o <<I>>)
             rest == AnyOfIterDescribe([m EXCEPT !.ms[I + 1] = s.obj], I + 1,
                                       description \o AnyOfConnective(I) \o s.text,
                                       path)
         IN  [text |-> rest.text, obj |-> rest.obj, calls |-> s.calls \o rest.calls,
              writes |-> s.writes \o rest.writes]

\* MatchAllOf::describe.
AllOfDescribe(m, path) ==
    LET it == AllOfIterDescribe(m, 0, "( ", path)
    IN  [text |-> it.text \o " )", obj |-> it.obj, calls |-> it.calls,
         writes |-> it.writes]

\* MatchAnyOf::describe.
AnyOfDescribe(m, path) ==
    LET it == AnyOfIterDescribe(m, 0, "( ", path)
    IN  [text |-> it.text \o " )", obj |-> it.obj, calls |-> it.calls,
         writes |-> it.writes]

\* MatchNotOf::describe: "not " + m_matcher.describe().
NotOfDescribe(m, path) ==
    LET d == Describe(m.ms[1], path \o <<0>>)
    IN  [text |-> "not " \o d.text,
         obj |-> [m EXCEPT !.ms[1] = d.obj],
         calls |-> d.calls,
         writes |-> d.writes]

\* describe() of a user matcher.
LeafDescribe(m) == [text |-> m.desc, obj |-> m, calls |-> <<>>, writes |-> <<>>]

\* The virtual dispatch of m.describe().
Describe(m, path) ==
    LET d == CASE m.kind = "AllOf" -> AllOfDescribe(m, path)
               [] m.kind = "AnyOf" -> AnyOfDescribe(m, path)
               [] m.kind = "NotOf" -> NotOfDescribe(m, path)
               [] OTHER -> LeafDescribe(m)
    IN  [text |-> d.text, obj |-> d.obj, calls |-> <<path>> \o d.calls,
         writes |-> d.writes]

-----------------------------------------------------------------------------
(* Types and overload resolution                                           *)
(* A C++ type is a record: a class [k = "Class", cls], or a specialization *)
(* MatchAllOf<args...>, MatchAnyOf<args...>, MatchNotOf<arg> with k the    *)
(* template.  An overload is a record                                      *)
(*   fn        the declaration                                             *)
(*   viable    deduction and substitution succeed for the operands         *)
(*   fixed     a parameter has a non-deduced class type (MatchAllOf,       *)
(*             MatchAnyOf of the befriending specialization)               *)
(*   declared  the declared return type                                    *)
(*   returned  the type of the return statement's operand                  *)
(*   value     the object the return statement builds                      *)

ClassT(cls) == [k |-> "Class", cls |-> cls, args |-> <<>>]
TemplateT(k, args) == [k |-> k, cls |-> "", args |-> args]

RECURSIVE TypeOf(_)
TypeOf(m) ==
    IF m.kind \in {"Leaf", "Other"}
    THEN ClassT(m.cls)
    ELSE TemplateT(m.kind, [i \in 1 .. Len(m.ms) |-> TypeOf(m.ms[i])])

\* IsMatcher<T>: std::is_base_of<MatcherUntypedBase, T>.
IsMatcher(T) ==
    \/ T.k \in {"AllOf", "AnyOf", "NotOf"}
    \/ T.k = "Class" /\ T.cls \in {m.cls : m \in UserMatchers}

\* EnableIfT<C>: the alias names the specialization std::enable_if<C, T>
\* itself, a type for either value of C.
EnableIfT(C) == [wellFormed |-> TRUE]

\* Template argument deduction finds every template parameter among the
\* function parameter types.
Deducible(templateParams, inFunctionParams) == templateParams \subseteq inFunctionParams

\* A return statement converts its operand to the declared return type; the
\* constructors of MatchAllOf and MatchAnyOf are explicit, which leaves the
\* copy of an object of the same type.
Convertible(from, to) == from = to

Overload(fn, viable, fixed, declared, returned, value) ==
    [fn |-> fn, viable |-> viable, fixed |-> fixed, declared |-> declared,
     returned |-> returned, value |-> value]

\* Partial ordering of function templates: a template with a parameter of
\* a fixed class type is more specialized than one whose parameters are all
\* deduced; two templates fixing different parameters are unordered.
MoreSpecialized(c, d) == c.fixed /\ ~d.fixed

\* The call: the best viable overload, and its return statement.
Resolve(candidates) ==
    LET viable == {c \in candidates : c.viable}
        best == {c \in viable : \A d \in viable \ {c} : MoreSpecialized(c, d)}
    IN  IF viable = {} THEN IllFormed("no viable operator")
        ELSE IF best = {} THEN IllFormed("ambiguous call")
        ELSE LET c == CHOOSE c \in best : TRUE
             IN  IF Convertible(c.returned, c.declared)
                 THEN c.value
                 ELSE IllFormed("no conversion to the declared return type")

\* Not( M const& m ).
Not(m) == MatchNotOf(m)

\* And( Ms const& ...ms ).
And(ms) == MatchAllOf(ms)

\* Or( Ms const& ...ms ).
Or(ms) == MatchAnyOf(ms)

\* friend MatchAllOf<Ms..., M> operator && (M a, MatchAllOf b), a friend of
\* the class of b.
AllOfFriendLeft(a, b) ==
    LET Ms == TypeOf(b).args
        M == TypeOf(a)
    IN  Overload("operator && (M, MatchAllOf)", b.kind = "AllOf", TRUE,
                 TemplateT("AllOf", Ms \o <<M>>),
                 TemplateT("AllOf", <<M>> \o Ms),
                 MatchAllOf(<<a>> \o b.ms))

\* friend MatchAllOf<Ms..., M> operator && (MatchAllOf a, M b), a friend of
\* the class of a.
AllOfFriendRight(a, b) ==
    LET Ms == TypeOf(a).args
        M == TypeOf(b)
    IN  Overload("operator && (MatchAllOf, M)", a.kind = "AllOf", TRUE,
                 TemplateT("AllOf", Ms \o <<M>>),
                 TemplateT("AllOf", Ms \o <<M>>),
                 MatchAllOf(a.ms \o <<b>>))

\* template <typename M, typename... Bs>
\* friend MatchAllOf<Ms..., Bs...> operator && (MatchAllOf a, MatchAllOf<Bs...> b).
AllOfFriendBoth(a, b) ==
    LET Ms == TypeOf(a).args
        Bs == TypeOf(b).args
    IN  Overload("operator && (MatchAllOf, MatchAllOf<Bs...>)",
                 /\ a.kind = "AllOf"
                 /\ b.kind = "AllOf"
                 /\ Deducible({"M", "Bs"}, {"Bs"}),
                 TRUE,
                 TemplateT("AllOf", Ms \o Bs),
                 TemplateT("AllOf", Ms \o Bs),
                 MatchAllOf(a.ms \o b.ms))

\* template <M1, M2, typename = EnableIfT<IsMatcher<M1>::value &&
\* IsMatcher<M2>::value>> operator && ( M1 const& m1, M2 const& m2 ).
GenericAnd(m1, m2) ==
    Overload("operator && (M1 const&, M2 const&)",
             EnableIfT(IsMatcher(TypeOf(m1)) /\ IsMatcher(TypeOf(m2))).wellFormed,
             FALSE,
             TypeOf(And(<<m1, m2>>)),
             TypeOf(And(<<m1, m2>>)),
             And(<<m1, m2>>))

\* The overloads of && that name lookup finds for the operands.
AndCandidates(a, b) ==
    {AllOfFriendLeft(a, b), AllOfFriendRight(a, b), AllOfFriendBoth(a, b),
     GenericAnd(a, b)}

\* The expression a && b.
OperatorAnd(a, b) == Resolve(AndCandidates(a, b))

\* friend MatchAnyOf<M, Ms..., M> operator || (M a, MatchAnyOf b).
AnyOfFriendLeft(a, b) ==
    LET Ms == TypeOf(b).args
        M == TypeOf(a)
    IN  Overload("operator || (M, MatchAnyOf)", b.kind = "AnyOf", TRUE,
                 TemplateT("AnyOf", <<M>> \o Ms \o <<M>>),
                 TemplateT("AnyOf", <<M>> \o Ms),
                 MatchAnyOf(<<a>> \o b.ms))

\* friend MatchAnyOf<Ms..., M> operator || (MatchAnyOf a, M b).
AnyOfFriendRight(a, b) ==
    LET Ms == TypeOf(a).args
        M == TypeOf(b)
    IN  Overload("operator || (MatchAnyOf, M)", a.kind = "AnyOf", TRUE,
                 TemplateT("AnyOf", Ms \o <<M>>),
                 TemplateT("AnyOf", Ms \o <<M>>),
                 MatchAnyOf(a.ms \o <<b>>))

\* template <typename M, typename... Bs>
\* friend MatchAnyOf<Ms..., Bs...> operator || (MatchAnyOf a, MatchAnyOf<Bs...> b).
AnyOfFriendBoth(a, b) ==
    LET Ms == TypeOf(a).args
        Bs == TypeOf(b).args
    IN  Overload("operator || (MatchAnyOf, MatchAnyOf<Bs...>)",
                 /\ a.kind = "AnyOf"
                 /\ b.kind = "AnyOf"
                 /\ Deducible({"M", "Bs"}, {"Bs"}),
                 TRUE,
                 TemplateT("AnyOf", Ms \o Bs),
                 TemplateT("AnyOf", Ms \o Bs),
                 MatchAnyOf(a.ms \o b.ms))

\* template <M1, M2, typename = EnableIfT<...>> operator || ( M1 const&, M2 const& ).
GenericOr(m1, m2) ==
    Overload("operator || (M1 const&, M2 const&)",
             EnableIfT(IsMatcher(TypeOf(m1)) /\ IsMatcher(TypeOf(m2))).wellFormed,
             FALSE,
             TypeOf(Or(<<m1, m2>>)),
             TypeOf(Or(<<m1, m2>>)),
             Or(<<m1, m2>>))

\* The overloads of || that name lookup finds for the operands.
OrCandidates(a, b) ==
    {AnyOfFriendLeft(a, b), AnyOfFriendRight(a, b), AnyOfFriendBoth(a, b),
     GenericOr(a, b)}

\* The expression a || b.
OperatorOr(a, b) == Resolve(OrCandidates(a, b))

\* template <M, typename = EnableIfT<IsMatcher<M>::value>> operator ! ( M const& m ).
GenericNot(m) ==
    Overload("operator ! (M const&)",
             EnableIfT(IsMatcher(TypeOf(m))).wellFormed,
             FALSE,
             TypeOf(Not(m)),
             TypeOf(Not(m)),
             Not(m))

NotCandidates(m) == {GenericNot(m)}

\* The expression !m.
OperatorNot(m) == Resolve(NotCandidates(m))

-----------------------------------------------------------------------------
(* The test body: two objects x and y, combined by the factories and the   *)
(* operators, and the calls x.match(v) and x.toString().                   *)

VARIABLES
    x,          \* the object under test
    y,          \* the second operand
    last,       \* what the last operation was given and what it produced
    returned,   \* the texts x.toString() returned since x was built
    nDescribe,  \* the describe() invocations on x since x was built
    assoc,      \* the regrouping test: operands, groupings, results
    tree,       \* the matcher tree the threads share
    thr,        \* each thread's position in its call
    published,  \* the tree has been handed to the other threads
    warm,       \* the nodes the owner described, with the text returned
    access      \* the cache accesses made since the tree was published

testVars == <<x, y, last, returned, nDescribe>>
assocVars == <<assoc>>
concVars == <<tree, thr, published, warm, access>>
vars == <<testVars, assocVars, concVars>>

Nil == Obj("Nil", "", {}, "", <<>>)

Op(op, l, r, out, arg, res, calls, text) ==
    [op |-> op, l |-> l, r |-> r, out |-> out, arg |-> arg, res |-> res,
     calls |-> calls, text |-> text]

NoOp == Op("none", Nil, Nil, Nil, 0, FALSE, <<>>, "")

\* How often `path` occurs in a call log.
RECURSIVE Count(_, _)
Count(calls, path) ==
    IF calls = <<>> THEN 0
    ELSE (IF Head(calls) = path THEN 1 ELSE 0) + Count(Tail(calls), path)

\* The variables of a test that a specification does not run.
TestIdle == x = Nil /\ y = Nil /\ last = NoOp /\ returned = <<>> /\ nDescribe = 0
AssocIdle == assoc = Nil
ConcIdle == tree = Nil /\ thr = <<>> /\ published = FALSE /\ warm = {} /\ access = {}

\* x takes the result of an expression; an ill-formed expression is rejected
\* by the compiler and leaves the test body as it was.
Assign(op, l, r, out) ==
    /\ Size(out) <= MaxNodes
    /\ last' = Op(op, l, r, out, 0, FALSE, <<>>, "")
    /\ IF out.kind = "IllFormed"
       THEN UNCHANGED <<x, returned, nDescribe>>
       ELSE x' = out /\ returned' = <<>> /\ nDescribe' = 0
    /\ UNCHANGED <<y, assocVars, concVars>>

CallAnd0 == Assign("And", Nil, Nil, And(<<>>))
CallAnd1 == Assign("And", x, Nil, And(<<x>>))
CallAnd2(a, b) == Assign("And", a, b, And(<<a, b>>))
CallOr0 == Assign("Or", Nil, Nil, Or(<<>>))
CallOr1 == Assign("Or", x, Nil, Or(<<x>>))
CallOr2(a, b) == Assign("Or", a, b, Or(<<a, b>>))
CallNot == Assign("Not", x, Nil, Not(x))
ApplyAnd(a, b) == Assign("&&", a, b, OperatorAnd(a, b))
ApplyOr(a, b) == Assign("||", a, b, OperatorOr(a, b))
ApplyNot == Assign("!", x, Nil, OperatorNot(x))

\* x.match(v).
CallMatch ==
    \E v \in Values :
        /\ AllMatchers(x)
        /\ LET r == Match(x, v, <<>>)
           IN  last' = Op("match", x, Nil, x, v, r.res, r.calls, "")
        /\ UNCHANGED <<x, y, returned, nDescribe, assocVars, concVars>>

\* x.toString().
CallToString ==
    /\ AllMatchers(x)
    /\ Len(returned) < MaxCalls
    /\ LET r == ToString(x, <<>>)
       IN  /\ x' = r.obj
           /\ last' = Op("toString", x, Nil, r.obj, 0, FALSE, r.calls, r.text)
           /\ returned' = Append(returned, r.text)
           /\ nDescribe' = nDescribe + Count(r.calls, <<>>)
    /\ UNCHANGED <<y, assocVars, concVars>>

\* Specification Spec: x is combined with newly made user matchers, matched
\* and described.
Init ==
    /\ x \in Probes
    /\ y = Nil
    /\ last = NoOp
    /\ returned = <<>>
    /\ nDescribe = 0
    /\ AssocIdle
    /\ ConcIdle

Next ==
    \/ CallAnd0
    \/ CallAnd1
    \/ \E o \in Probes : CallAnd2(x, o)
    \/ \E o \in Probes : CallAnd2(o, x)
    \/ CallOr0
    \/ CallOr1
    \/ \E o \in Probes : CallOr2(x, o)
    \/ \E o \in Probes : CallOr2(o, x)
    \/ CallNot
    \/ \E o \in Probes : ApplyAnd(x, o)
    \/ \E o \in Probes : ApplyOr(x, o)
    \/ ApplyNot
    \/ CallMatch
    \/ CallToString

Spec == Init /\ [][Next]_vars

\* A new object, a user matcher or an object that is no matcher, as second
\* operand.
NewObject ==
    \E o \in UserMatchers \cup {Widget} :
        /\ y' = o
        /\ last' = NoOp
        /\ UNCHANGED <<x, returned, nDescribe, assocVars, concVars>>

\* The operands change places.
Swap ==
    /\ Size(x) <= MaxOperand
    /\ x' = y
    /\ y' = x
    /\ last' = NoOp
    /\ UNCHANGED <<returned, nDescribe, assocVars, concVars>>

\* Specification SpecOps: the operators applied to two operands of every
\* shape.
InitOps ==
    /\ x \in UserMatchers \cup {Widget}
    /\ y \in UserMatchers \cup {Widget}
    /\ last = NoOp
    /\ returned = <<>>
    /\ nDescribe = 0
    /\ AssocIdle
    /\ ConcIdle

NextOps ==
    \/ NewObject
    \/ Swap
    \/ CallAnd1
    \/ CallOr1
    \/ ApplyAnd(x, y)
    \/ ApplyOr(x, y)
    \/ ApplyNot

SpecOps == InitOps /\ [][NextOps]_vars

-----------------------------------------------------------------------------
(* Claims checked under Spec *)

IsDirect(path) == Len(path) = 1

\* The tuple indices of the direct sub-matchers whose match() a call
\* invoked, in call order.
DirectCalls(calls) ==
    LET direct == SelectSeq(calls, IsDirect)
    IN  [i \in 1 .. Len(direct) |-> direct[i][1]]

\* The verdict of sub-matcher i (1-based) of the object the last call was
\* made on, for the value of that call.
SubVerdict(i) == Match(last.l.ms[i], last.arg, <<i - 1>>).res

\* C1: AllOf.match(v) is true iff every sub-matcher matches v (the empty
\* AllOf matches everything); the sub-matchers are invoked in construction
\* order up to and including the first that returns false, and all n of
\* them when none returns false.
C1_AllOfMatch ==
    (last.op = "match" /\ last.l.kind = "AllOf") =>
        LET n == Len(last.l.ms)
            falses == {i \in 1 .. n : ~SubVerdict(i)}
            k == IF falses = {} THEN n ELSE Min(falses)
        IN  /\ last.res = (falses = {})
            /\ DirectCalls(last.calls) = [i \in 1 .. k |-> i - 1]

\* An AllOf of three sub-matchers whose first returns false has been matched.
C1_Witness ==
    /\ last.op = "match"
    /\ last.l.kind = "AllOf"
    /\ Len(last.l.ms) = 3
    /\ ~SubVerdict(1)
    /\ SubVerdict(2)
    /\ ~last.res

\* C2: AnyOf.match(v) is true iff some sub-matcher matches v (the empty
\* AnyOf matches nothing); the sub-matchers are invoked in construction
\* order up to and including the first that returns true.
C2_AnyOfMatch ==
    (last.op = "match" /\ last.l.kind = "AnyOf") =>
        LET n == Len(last.l.ms)
            trues == {i \in 1 .. n : SubVerdict(i)}
            k == IF trues = {} THEN n ELSE Min(trues)
        IN  /\ last.res = (trues /= {})
            /\ DirectCalls(last.calls) = [i \in 1 .. k |-> i - 1]

\* An AnyOf of three sub-matchers whose second is the first to return true
\* has been matched.
C2_Witness ==
    /\ last.op = "match"
    /\ last.l.kind = "AnyOf"
    /\ Len(last.l.ms) = 3
    /\ ~SubVerdict(1)
    /\ SubVerdict(2)
    /\ last.res
    /\ DirectCalls(last.calls) = <<0, 1>>

\* The texts joined by a separator.
RECURSIVE Join(_, _)
Join(texts, sep) ==
    IF texts = <<>> THEN ""
    ELSE IF Len(texts) = 1 THEN texts[1]
    ELSE texts[1] \o sep \o Join(Tail(texts), sep)

\* The description the composition rules give a matcher.
RECURSIVE Prose(_)
Prose(m) ==
    CASE m.kind = "AllOf" ->
            "( " \o Join([i \in 1 .. Len(m.ms) |-> Prose(m.ms[i])], " and ") \o " )"
      [] m.kind = "AnyOf" ->
            "( " \o Join([i \in 1 .. Len(m.ms) |-> Prose(m.ms[i])], " or ") \o " )"
      [] m.kind = "NotOf" -> "not " \o Prose(m.ms[1])
      [] OTHER -> m.desc

\* C6: the description of an AllOf (AnyOf) is "( " then the n
\* sub-descriptions in construction order joined by " and " (" or ") then
\* " )", which is "(  )" for n = 0; a sub-matcher that is a combinator
\* appears with its own parentheses.
C6_Description ==
    (last.op = "toString" /\ last.l.kind \in {"AllOf", "AnyOf"}) =>
        /\ last.text = Prose(last.l)
        /\ Len(last.l.ms) = 0 => last.text = "(  )"

\* An AllOf of two sub-matchers, the second an AnyOf, has been described by
\* its describe().
C6_Witness ==
    /\ last.op = "toString"
    /\ Count(last.calls, <<>>) = 1
    /\ last.l.kind = "AllOf"
    /\ Len(last.l.ms) = 2
    /\ last.l.ms[2].kind = "AnyOf"
    /\ Len(last.l.ms[2].ms) = 1

C10_SubMatchersCached ==
    (/\ last.op = "toString"
     /\ last.l.kind \in {"AllOf", "AnyOf", "NotOf"}
     /\ Count(last.calls, <<>>) = 1) =>
        \A i \in 1 .. Len(last.l.ms) :
            /\ last.out.ms[i].m_cachedToString = Prose(last.l.ms[i])
            /\ Count(last.calls, <<i - 1>>) <= 1

-----------------------------------------------------------------------------
(* Claims checked under SpecOps *)

\* The sub-matcher sequence an operand brings to a combinator of `kind`:
\* its own sequence when it is one, itself otherwise.
Operands(m, kind) == IF m.kind = kind THEN m.ms ELSE <<m>>

BothMatchers(a, b) == IsMatcher(TypeOf(a)) /\ IsMatcher(TypeOf(b))

\* C3: a && b with at least one AllOf operand is one flat AllOf: the left
\* operand's sequence followed by the right operand's, neither AllOf
\* operand kept as a sub-matcher.
C3_AndFlattens ==
    (/\ last.op = "&&"
     /\ BothMatchers(last.l, last.r)
     /\ "AllOf" \in {last.l.kind, last.r.kind}) =>
        /\ last.out.kind = "AllOf"
        /\ last.out.ms = Operands(last.l, "AllOf") \o Operands(last.r, "AllOf")
        /\ \A i \in 1 .. Len(last.out.ms) :
               last.out.ms[i] \notin {o \in {last.l, last.r} : o.kind = "AllOf"}

\* C4: a || b with at least one AnyOf operand is one flat AnyOf: the left
\* operand's sequence followed by the right operand's, of arity left arity
\* plus right arity.
C4_OrFlattens ==
    (/\ last.op = "||"
     /\ BothMatchers(last.l, last.r)
     /\ "AnyOf" \in {last.l.kind, last.r.kind}) =>
        /\ last.out.kind = "AnyOf"
        /\ last.out.ms = Operands(last.l, "AnyOf") \o Operands(last.r, "AnyOf")
        /\ Len(TypeOf(last.out).args)
               = Len(Operands(last.l, "AnyOf")) + Len(Operands(last.r, "AnyOf"))

\* C8: with an operand that is no matcher, no operator && / || / ! of the
\* library is viable.
C8_OperatorsConstrained ==
    /\ (last.op = "&&" /\ ~BothMatchers(last.l, last.r)) =>
           \A c \in AndCandidates(last.l, last.r) : ~c.viable
    /\ (last.op = "||" /\ ~BothMatchers(last.l, last.r)) =>
           \A c \in OrCandidates(last.l, last.r) : ~c.viable
    /\ (last.op = "!" /\ ~IsMatcher(TypeOf(last.l))) =>
           \A c \in NotCandidates(last.l) : ~c.viable

-----------------------------------------------------------------------------
(* The regrouping test: for operands a, b, c and one of the operators,     *)
(*     auto left  = (a op b) op c;                                         *)
(*     auto right = a op (b op c);                                         *)
(*     left.match(v) == right.match(v);                                    *)
(*     left.toString() == right.toString();                                *)
(* assoc.pc is the statement to run next; an ill-formed expression ends    *)
(* the test at "rejected".                                                 *)

Apply(op, a, b) == IF op = "&&" THEN OperatorAnd(a, b) ELSE OperatorOr(a, b)

AssocStep(field, out, next) ==
    /\ assoc' = [assoc EXCEPT ![field] = out,
                              !.pc = IF out.kind = "IllFormed" THEN "rejected" ELSE next]
    /\ UNCHANGED <<testVars, concVars>>

AssocInnerLeft ==
    /\ assoc.pc = "inner left"
    /\ AssocStep("ab", Apply(assoc.op, assoc.a, assoc.b), "outer left")

AssocOuterLeft ==
    /\ assoc.pc = "outer left"
    /\ AssocStep("left", Apply(assoc.op, assoc.ab, assoc.c), "inner right")

AssocInnerRight ==
    /\ assoc.pc = "inner right"
    /\ AssocStep("bc", Apply(assoc.op, assoc.b, assoc.c), "outer right")

AssocOuterRight ==
    /\ assoc.pc = "outer right"
    /\ AssocStep("right", Apply(assoc.op, assoc.a, assoc.bc), "match")

AssocMatch ==
    /\ assoc.pc = "match"
    /\ \E v \in Values :
           assoc' = [assoc EXCEPT !.pc = "toString",
                                  !.arg = v,
                                  !.verdicts = <<Match(assoc.left, v, <<>>).res,
                                                 Match(assoc.right, v, <<>>).res>>]
    /\ UNCHANGED <<testVars, concVars>>

AssocToString ==
    /\ assoc.pc = "toString"
    /\ LET l == ToString(assoc.left, <<>>)
           r == ToString(assoc.right, <<>>)
       IN  assoc' = [assoc EXCEPT !.pc = "done",
                                  !.left = l.obj,
                                  !.right = r.obj,
                                  !.texts = <<l.text, r.text>>]
    /\ UNCHANGED <<testVars, concVars>>

InitAssoc ==
    /\ TestIdle
    /\ ConcIdle
    /\ \E op \in {"&&", "||"} : \E a, b, c \in UserMatchers :
           assoc = [pc |-> "inner left", op |-> op, a |-> a, b |-> b, c |-> c,
                    ab |-> Nil, bc |-> Nil, left |-> Nil, right |-> Nil,
                    arg |-> 0, verdicts |-> <<>>, texts |-> <<>>]

NextAssoc ==
    \/ AssocInnerLeft
    \/ AssocOuterLeft
    \/ AssocInnerRight
    \/ AssocOuterRight
    \/ AssocMatch
    \/ AssocToString

SpecAssoc == InitAssoc /\ [][NextAssoc]_vars

\* C5: (a op b) op c and a op (b op c) build matchers with the same verdict
\* for every value and the same toString() text, for && and for ||.
C5_Regrouping ==
    /\ assoc.pc /= "rejected"
    /\ assoc.verdicts /= <<>> => assoc.verdicts[1] = assoc.verdicts[2]
    /\ assoc.texts /= <<>> => assoc.texts[1] = assoc.texts[2]

-----------------------------------------------------------------------------
(* Threads sharing a matcher tree.                                         *)
(* The owner (thread 1) builds the tree, calls toString() once on every    *)
(* node, and publishes the tree; from then on every thread calls           *)
(* toString() on its nodes and match() on its root, with no                *)
(* synchronisation.  A toString() call is the steps                        *)
(*   enter     test m_cachedToString                                       *)
(*   describe  call describe()                                             *)
(*   store     assign m_cachedToString                                     *)
(*   return    copy m_cachedToString to the caller                         *)
(* access records the cache accesses made after publication.  Two accesses *)
(* to one cache by different threads, one of them a write, are a data      *)
(* race: undefined behaviour, after which a returned text may be torn.     *)

Threads == 1 .. NThreads
Owner == Min(Threads)
Torn == "<torn>"

RECURSIVE At(_, _)
At(m, path) == IF path = <<>> THEN m ELSE At(m.ms[path[1] + 1], Tail(path))

RECURSIVE Replace(_, _, _)
Replace(m, path, n) ==
    IF path = <<>> THEN n
    ELSE [m EXCEPT !.ms[path[1] + 1] = Replace(@, Tail(path), n)]

RECURSIVE Paths(_)
Paths(m) ==
    {<<>>} \cup UNION {{<<i - 1>> \o q : q \in Paths(m.ms[i])} : i \in 1 .. Len(m.ms)}

Range(f) == {f[i] : i \in DOMAIN f}

Idle == [pc |-> "idle", node |-> <<>>, text |-> "", calls |-> 0,
         got |-> <<>>, verdict |-> <<>>]

Accesses(t, nodes, kind) ==
    IF published THEN {[t |-> t, node |-> q, kind |-> kind] : q \in nodes} ELSE {}

Raced(node) ==
    \E a, b \in access :
        a.node = node /\ b.node = node /\ a.t /= b.t /\ a.kind = "write"

MayCall(t, node) ==
    /\ thr[t].pc = "idle"
    /\ IF published
       THEN thr[t].calls < MaxCalls
       ELSE t = Owner /\ node \notin {w.node : w \in warm}

\* toString(): m_cachedToString.empty() ?
TsEnter(t) ==
    \E node \in Paths(tree) :
        /\ MayCall(t, node)
        /\ thr' = [thr EXCEPT ![t].node = node,
                              ![t].calls = IF published THEN @ + 1 ELSE @,
                              ![t].pc = IF At(tree, node).m_cachedToString = ""
                                        THEN "describe" ELSE "return"]
        /\ access' = access \cup Accesses(t, {node}, "read")
        /\ UNCHANGED <<tree, published, warm, testVars, assocVars>>

\* toString(): describe(), which fills the caches of the sub-matchers it
\* asks for their text.
TsDescribe(t) ==
    /\ thr[t].pc = "describe"
    /\ LET d == Describe(At(tree, thr[t].node), thr[t].node)
       IN  /\ tree' = Replace(tree, thr[t].node, d.obj)
           /\ thr' = [thr EXCEPT ![t].text = d.text, ![t].pc = "store"]
           /\ access' = access \cup Accesses(t, Range(d.writes), "write")
    /\ UNCHANGED <<published, warm, testVars, assocVars>>

\* toString(): m_cachedToString = the text describe() returned.
TsStore(t) ==
    /\ thr[t].pc = "store"
    /\ tree' = Replace(tree, thr[t].node,
                       [At(tree, thr[t].node) EXCEPT !.m_cachedToString = thr[t].text])
    /\ thr' = [thr EXCEPT ![t].pc = "return"]
    /\ access' = access \cup Accesses(t, {thr[t].node}, "write")
    /\ UNCHANGED <<published, warm, testVars, assocVars>>

\* toString(): return m_cachedToString.
TsReturn(t) ==
    /\ thr[t].pc = "return"
    /\ \E text \in {At(tree, thr[t].node).m_cachedToString}
                   \cup (IF Raced(thr[t].node) THEN {Torn} ELSE {}) :
           LET r == [node |-> thr[t].node, text |-> text]
           IN  /\ thr' = [thr EXCEPT ![t].pc = "idle",
                                     ![t].got = IF published THEN <<r>> ELSE @]
               /\ warm' = IF published THEN warm ELSE warm \cup {r}
    /\ access' = access \cup Accesses(t, {thr[t].node}, "read")
    /\ UNCHANGED <<tree, published, testVars, assocVars>>

\* tree.match(v) by a thread the tree was published to.
TsMatch(t) ==
    /\ published
    /\ thr[t].pc = "idle"
    /\ \E v \in Values :
           thr' = [thr EXCEPT ![t].verdict = <<v, Match(tree, v, <<>>).res>>]
    /\ UNCHANGED <<tree, published, warm, access, testVars, assocVars>>

\* The owner has called toString() on every node and shares the tree.
Publish ==
    /\ ~published
    /\ thr[Owner].pc = "idle"
    /\ {w.node : w \in warm} = Paths(tree)
    /\ published' = TRUE
    /\ UNCHANGED <<tree, thr, warm, access, testVars, assocVars>>

InitConc ==
    /\ TestIdle
    /\ AssocIdle
    /\ tree \in {And(<<a, b>>) : a, b \in Probes}
                \cup {Or(<<a, Not(b)>>) : a, b \in Probes}
    /\ thr = [t \in Threads |-> Idle]
    /\ published = FALSE
    /\ warm = {}
    /\ access = {}

NextConc ==
    \/ \E t \in Threads : TsEnter(t)
    \/ \E t \in Threads : TsDescribe(t)
    \/ \E t \in Threads : TsStore(t)
    \/ \E t \in Threads : TsReturn(t)
    \/ \E t \in Threads : TsMatch(t)
    \/ Publish

SpecConc == InitConc /\ [][NextConc]_vars

=============================================================================
